---- MODULE Spec2Model ----
(***************************************************************************)
(* Model of the CAMS batch pipeline: set_up.py (chunk_data) and            *)
(* process_cams_data.py (get_file_to_process, fetch_cams_data,             *)
(* validate_output, main).                                                 *)
(*                                                                         *)
(* The program is single-threaded; every function is an operator computed  *)
(* the way the code computes it and every program run (set_up, main) is    *)
(* one action.  The external primitive pvlib.iotools.get_cams is an input: *)
(* each call either raises or returns a table of some number of rows.      *)
(*                                                                         *)
(* Paths follow the separator the code itself writes ("\\", lines 170,     *)
(* 228-229 of process_cams_data.py): a path is the sequence of its         *)
(* components, and os.rename has the semantics of that platform (it raises *)
(* FileExistsError when the destination exists).                           *)
(***************************************************************************)
EXTENDS Integers, Sequences, FiniteSets, TLC

VARIABLES
    config,        \* config.json: [start_date, end_date, time_step]
    input_file,    \* the CSV at --file_path handed to set_up.py
    unprocessed,   \* the unprocessed folder: file name -> [ctime, rows]
    processed,     \* the processed folder:   file name -> [ctime, rows]
    results,       \* the results folder: date of the file name -> table
    clock,         \* file-system creation clock (next creation time)
    today,         \* datetime.now() as a calendar day
    chunked,       \* outcome of the last chunk_data call
    datafile,      \* main: the path get_file_to_process returned (<<>> = None)
    fetch,         \* main: outcome of the last fetch_cams_data call
    cams_details,  \* the combined table handed to validate_output
    validation,    \* outcome of the last validate_output call
    handled,       \* main: exception caught by main's except clause
    escaped,       \* main: exception that left main
    last_run       \* the program that ran last: "none", "set_up", "main", "validate"

vars == <<config, input_file, unprocessed, processed, results, clock, today,
          chunked, datafile, fetch, cams_details, validation, handled, escaped,
          last_run>>

---------------------------------------------------------------------------
(* Bounds of the model *)

MaxCamsRows == 1      \* rows one get_cams call returns
MaxRows == 3          \* rows of a table handed to validate_output alone
MaxRowCount == 210    \* rows of the input of chunk_data alone
MaxClock == 3         \* file creations
MaxDay == 2           \* calendar days the runs spread over
MaxFiles == 2         \* files in the unprocessed folder at the start

(* Program constants *)

chunk_size == 100
timedelta_day_minutes == 1440

None == <<>>

Min(a, b) == IF a < b THEN a ELSE b

---------------------------------------------------------------------------
(* Tables.  A row is a sequence of columns <<name, value>>, left to right. *)

Lats == {1, 2}
Lons == {1, 2}

LocationRow(lat, lon) == << <<"Latitude", lat>>, <<"Longitude", lon>> >>

LocationRows == { LocationRow(lat, lon) : lat \in Lats, lon \in Lons }

SeqsUpTo(S, n) == UNION { [1..k -> S] : k \in 0..n }

\* row[name]
Col(row, name) == LET i == CHOOSE j \in 1..Len(row) : row[j][1] = name IN row[i][2]

\* Series.nunique() of column `name`
nunique(table, name) == Cardinality({ Col(table[k], name) : k \in 1..Len(table) })

---------------------------------------------------------------------------
(* Dates.  A date string "YYYY-MM-DD" is the sequence of its characters.   *)

Digit(c) ==
    CASE c = "0" -> 0 [] c = "1" -> 1 [] c = "2" -> 2 [] c = "3" -> 3
      [] c = "4" -> 4 [] c = "5" -> 5 [] c = "6" -> 6 [] c = "7" -> 7
      [] c = "8" -> 8 [] c = "9" -> 9

IsDigit(c) == c \in {"0", "1", "2", "3", "4", "5", "6", "7", "8", "9"}

is_leap(y) == (y % 4 = 0) /\ ((y % 100 # 0) \/ (y % 400 = 0))

days_in_month(y, m) ==
    IF m = 2 THEN (IF is_leap(y) THEN 29 ELSE 28)
    ELSE IF m \in {4, 6, 9, 11} THEN 30 ELSE 31

\* datetime.datetime.strptime(s, "%Y-%m-%d"): the date, or ValueError
strptime(s) ==
    LET wellformed == /\ Len(s) = 10
                      /\ s[5] = "-" /\ s[8] = "-"
                      /\ \A k \in {1, 2, 3, 4, 6, 7, 9, 10} : IsDigit(s[k])
        y == Digit(s[1]) * 1000 + Digit(s[2]) * 100 + Digit(s[3]) * 10 + Digit(s[4])
        m == Digit(s[6]) * 10 + Digit(s[7])
        d == Digit(s[9]) * 10 + Digit(s[10])
    IN  IF wellformed /\ y >= 1 /\ m \in 1..12 /\ d >= 1 /\ d <= days_in_month(y, m)
        THEN [ok |-> TRUE, year |-> y, month |-> m, day |-> d]
        ELSE [ok |-> FALSE, year |-> 0, month |-> 0, day |-> 0]

RECURSIVE days_before_month(_, _)
days_before_month(y, m) ==
    IF m = 1 THEN 0 ELSE days_before_month(y, m - 1) + days_in_month(y, m - 1)

days_before_year(y) ==
    (y - 1) * 365 + ((y - 1) \div 4) - ((y - 1) \div 100) + ((y - 1) \div 400)

\* the day number datetime subtraction works on
toordinal(dt) == days_before_year(dt.year) + days_before_month(dt.year, dt.month) + dt.day

---------------------------------------------------------------------------
(* validate_output *)

time_step_ref == [s \in {"1min", "15min", "1h", "1M"} |->
                    CASE s = "1min" -> 1 [] s = "15min" -> 15 [] s = "1h" -> 60
                      [] s = "1M" -> None]

\* output_data['Latitude'].nunique()
unique_locations(output_data) == nunique(output_data, "Latitude")

\* (end_date + timedelta(days=1) - start_date).total_seconds() / 60
time_delta(start, end) == ((toordinal(end) + 1) - toordinal(start)) * timedelta_day_minutes

\* lines 159-165: the expected row count
exp_rows_of(output_data, start, end, time_step) ==
    IF time_step = "1M"
    THEN ((end.year - start.year) * 12 + (end.month - start.month) + 1)
            * unique_locations(output_data)
    ELSE (time_delta(start, end) \div time_step_ref[time_step])
            * unique_locations(output_data)

\* a to_csv that appends to the file of the date (mode="a")
to_csv_appending(folder, cur_date, output_data) ==
    [d \in (DOMAIN folder) \cup {cur_date} |->
        IF d = cur_date
        THEN (IF d \in DOMAIN folder THEN folder[d] ELSE <<>>) \o output_data
        ELSE folder[d]]

\* output_data.to_csv(f"{output_folder}\\processed_cams_data_{cur_date}.csv")
to_csv_results(folder, cur_date, output_data) ==
    [d \in (DOMAIN folder) \cup {cur_date} |->
        IF d = cur_date THEN output_data ELSE folder[d]]

\* a comparison that accepts surplus rows
rows_at_least(output_data, exp_rows) == Len(output_data) >= exp_rows

\* len(output_data) == exp_rows
rows_match(output_data, exp_rows) == Len(output_data) = exp_rows

NotValidated ==
    [called |-> FALSE, exc |-> "none", msg |-> <<>>, exp_rows |-> <<>>,
     found |-> <<>>, ret |-> FALSE, saved |-> <<>>]

\* validate_output: its outcome `v` and the results folder it leaves.
\* exc is the exception it raises ("none": it returned), msg the two counts a
\* mismatch error carries, saved the date of the file it wrote.
validate_output(output_data, start_date, end_date, time_step, output_folder, now) ==
    LET start == strptime(start_date)
        end == strptime(end_date)
        raised(e) == [v |-> [called |-> TRUE, exc |-> e, msg |-> <<>>,
                             exp_rows |-> <<>>, found |-> <<>>, ret |-> FALSE,
                             saved |-> <<>>],
                      folder |-> output_folder]
    IN  IF ~start.ok \/ ~end.ok THEN raised("ValueError")
        ELSE IF time_step \notin DOMAIN time_step_ref THEN raised("KeyError")
        ELSE LET exp_rows == exp_rows_of(output_data, start, end, time_step)
             IN  IF rows_match(output_data, exp_rows)
                 THEN [v |-> [called |-> TRUE, exc |-> "none", msg |-> <<>>,
                              exp_rows |-> <<exp_rows>>,
                              found |-> <<Len(output_data)>>, ret |-> TRUE,
                              saved |-> <<now>>],
                       folder |-> to_csv_results(output_folder, now, output_data)]
                 ELSE [v |-> [called |-> TRUE, exc |-> "ValueError",
                              msg |-> <<exp_rows, Len(output_data)>>,
                              exp_rows |-> <<exp_rows>>,
                              found |-> <<Len(output_data)>>, ret |-> FALSE,
                              saved |-> <<>>],
                       folder |-> output_folder]

---------------------------------------------------------------------------
(* fetch_cams_data *)

\* What one call of pvlib.iotools.get_cams does: raise, or return `rows` rows.
CamsOutcomes ==
    {[raises |-> TRUE, rows |-> 0]} \cup
    {[raises |-> FALSE, rows |-> n] : n \in 0..MaxCamsRows}

\* the per-location table get_cams returns: one row per time step
get_cams_data(out) == [j \in 1..out.rows |-> << <<"ghi", j>> >>]

\* DataFrame.insert(loc, column, value), on every row
insert(data, loc, column, value) ==
    [j \in 1..Len(data) |->
        SubSeq(data[j], 1, loc) \o << <<column, value>> >>
            \o SubSeq(data[j], loc + 1, Len(data[j]))]

\* the two inserts with their columns exchanged
tag_location_swapped(data, row) ==
    insert(insert(data, 0, "Longitude", Col(row, "Longitude")),
           1, "Latitude", Col(row, "Latitude"))

\* lines 108-109
tag_location(data, row) ==
    insert(insert(data, 0, "Latitude", Col(row, "Latitude")),
           1, "Longitude", Col(row, "Longitude"))

\* pd.concat([cams_df, data], ignore_index=True)
concat(cams_df, data) == cams_df \o data

\* names bound when the except clause of fetch_cams_data runs (parameters,
\* locals, module globals)
fetch_scope ==
    {"solar_data", "start_date", "end_date", "email", "identifier", "altitude",
     "time_step", "time_ref", "verbose", "integrated", "label", "map_variables",
     "server", "timeout", "cams_df", "idx", "row", "e",
     "pvlib", "pd", "datetime", "json", "os"}

\* names the f-string of line 115 reads
fetch_handler_names == {"idx", "latitude", "longitude", "e"}

\* lines 114-116: the except clause, entered with exception e at index idx
fetch_except(st, idx, row, e) ==
    IF fetch_handler_names \subseteq fetch_scope
    THEN [st EXCEPT !.exc = e, !.primitive_exc = e,
                    !.log = Append(@, [idx |-> idx,
                                       Latitude |-> Col(row, "Latitude"),
                                       Longitude |-> Col(row, "Longitude")])]
    ELSE [st EXCEPT !.exc = "NameError", !.primitive_exc = e]

NotFetched ==
    [called |-> FALSE, solar_data |-> <<>>, returned |-> FALSE, cams_df |-> <<>>,
     calls |-> <<>>, log |-> <<>>, exc |-> "none", primitive_exc |-> "none"]

\* lines 96-116: the loop from row k on; outs[k] is what get_cams does for row k.
\* calls lists the get_cams calls made: the row index, its coordinates, the
\* rows returned.
RECURSIVE fetch_loop(_, _, _, _)
fetch_loop(solar_data, outs, k, st) ==
    IF k > Len(solar_data) THEN [st EXCEPT !.returned = TRUE]
    ELSE LET row == solar_data[k]
             idx == k - 1
             call == [idx |-> idx, Latitude |-> Col(row, "Latitude"),
                      Longitude |-> Col(row, "Longitude"),
                      raises |-> outs[k].raises, rows |-> outs[k].rows]
             called == [st EXCEPT !.calls = Append(@, call)]
         IN  IF outs[k].raises
             THEN fetch_except(called, idx, row, "CamsError")
             ELSE fetch_loop(solar_data, outs, k + 1,
                    [called EXCEPT !.cams_df =
                        concat(@, tag_location(get_cams_data(outs[k]), row))])

\* fetch_cams_data: returned = it returned cams_df; otherwise it raised exc.
fetch_cams_data(solar_data, outs) ==
    fetch_loop(solar_data, outs, 1,
               [NotFetched EXCEPT !.called = TRUE, !.solar_data = solar_data])

---------------------------------------------------------------------------
(* Folders *)

EmptyFolder == <<>>

Remove(folder, name) == [f \in (DOMAIN folder) \ {name} |-> folder[f]]

Put(folder, name, file) ==
    [f \in (DOMAIN folder) \cup {name} |-> IF f = name THEN file ELSE folder[f]]

\* os.path.join(folder, f): a path is the sequence of its components
path_join(folder_path, f) == Append(folder_path, f)

\* path.split("\\")[-1]
base_name(path) == path[Len(path)]

unprocessed_folder == <<"unprocessed">>
processed_folder == <<"processed">>

\* lines 49-56: the regular file of the folder with the least creation time,
\* or None
get_file_to_process(data_folder, folder) ==
    IF DOMAIN folder = {} THEN None
    ELSE path_join(data_folder,
            CHOOSE f \in DOMAIN folder :
                \A g \in DOMAIN folder : folder[f].ctime <= folder[g].ctime)

\* pd.read_csv(datafile)
read_csv(folder, path) == folder[base_name(path)].rows

\* os.rename(src, dst) from the unprocessed to the processed folder: the
\* destination must not exist
os_rename(src, dst, from, to) ==
    IF base_name(dst) \in DOMAIN to
    THEN [exc |-> "FileExistsError", from |-> from, to |-> to]
    ELSE [exc |-> "none", from |-> Remove(from, base_name(src)),
          to |-> Put(to, base_name(dst), from[base_name(src)])]

---------------------------------------------------------------------------
(* set_up.py: chunk_data *)

\* chunk.to_csv(chunk_file): an existing file keeps its creation time
write_chunk(st, name, chunk) ==
    IF name \in DOMAIN st.folder
    THEN [st EXCEPT !.folder = Put(@, name, [ctime |-> st.folder[name].ctime,
                                              rows |-> chunk])]
    ELSE [st EXCEPT !.folder = Put(@, name, [ctime |-> st.clock, rows |-> chunk]),
                    !.clock = @ + 1]

\* solar_farms_data.iloc[start : start + chunk_size]
iloc(data, start, stop) == SubSeq(data, start + 1, Min(stop, Len(data)))

\* lines 96-103: the loop from offset `start` on, i the enumerate counter
RECURSIVE chunk_loop(_, _, _, _)
chunk_loop(solar_farms_data, start, i, st) ==
    IF start >= Len(solar_farms_data) THEN st
    ELSE chunk_loop(solar_farms_data, start + chunk_size, i + 1,
            [write_chunk(st, i + 1, iloc(solar_farms_data, start, start + chunk_size))
                EXCEPT !.i = <<i>>, !.written = Append(@, i + 1)])

\* lines 105-106: i is bound only if the loop body ran
chunk_return(st) ==
    IF st.i = <<>> THEN [st EXCEPT !.exc = "UnboundLocalError"]
    ELSE [st EXCEPT !.ret = <<st.i[1] + 1>>]

\* chunk_data: the folder and clock it leaves, the files it wrote, and either
\* the count it returns (ret) or the exception it raises (exc)
chunk_data(solar_farms_data, folder, clk) ==
    chunk_return(chunk_loop(solar_farms_data, 0, 0,
        [called |-> TRUE, folder |-> folder, clock |-> clk, i |-> <<>>,
         written |-> <<>>, ret |-> <<>>, exc |-> "none"]))

NotChunked == [called |-> FALSE, written |-> <<>>, ret |-> <<>>, exc |-> "none"]

\* set_up.py main, lines 157-160: chunk the input into the unprocessed folder;
\* an exception is printed and swallowed
set_up ==
    /\ clock < MaxClock
    /\ LET c == chunk_data(input_file, unprocessed, clock)
       IN  /\ unprocessed' = c.folder
           /\ clock' = c.clock
           /\ chunked' = [called |-> TRUE, written |-> c.written, ret |-> c.ret,
                          exc |-> c.exc]
    /\ last_run' = "set_up"
    /\ datafile' = None
    /\ fetch' = NotFetched
    /\ cams_details' = <<>>
    /\ validation' = NotValidated
    /\ handled' = "none"
    /\ escaped' = "none"
    /\ UNCHANGED <<config, input_file, processed, results, today>>

---------------------------------------------------------------------------
(* process_cams_data.py: main *)

\* names bound at module level of process_cams_data.py (its imports and
\* functions) and in main when its except clause runs
main_scope ==
    {"pvlib", "pd", "datetime", "json", "os", "load_config",
     "get_file_to_process", "fetch_cams_data", "validate_output", "main", "ex"}

\* names lines 260-261 read
main_handler_names == {"ex", "traceback"}

\* lines 259-261: the except clause of main, entered with exception ex: the
\* exception that leaves main, if any
main_except(ex) == IF main_handler_names \subseteq main_scope THEN "none" ELSE "NameError"

\* lines 252-256: archive the picked file
archive(status, path, from, to) ==
    IF status
    THEN os_rename(path, path_join(processed_folder, base_name(path)), from, to)
    ELSE [exc |-> "none", from |-> from, to |-> to]

\* a main that archives the picked file whatever the outcome
MainRaisesArchiving(ex, file, f, table, v) ==
    LET a == archive(file # None, file, unprocessed, processed)
    IN  /\ datafile' = file
        /\ fetch' = f
        /\ cams_details' = table
        /\ validation' = v
        /\ handled' = ex
        /\ escaped' = main_except(ex)
        /\ unprocessed' = a.from
        /\ processed' = a.to
        /\ UNCHANGED results

\* The state main leaves when it stops with exception ex before any folder
\* changed.
MainRaises(ex, file, f, table, v) ==
    /\ datafile' = file
    /\ fetch' = f
    /\ cams_details' = table
    /\ validation' = v
    /\ handled' = ex
    /\ escaped' = main_except(ex)
    /\ UNCHANGED <<unprocessed, processed, results>>

\* One run of main (lines 202-261); outs is what get_cams does at each call.
main(outs) ==
    LET file == get_file_to_process(unprocessed_folder, unprocessed)
    IN  IF file = None
        THEN \* line 228: None.split
             MainRaises("AttributeError", file, NotFetched, <<>>, NotValidated)
        ELSE
        LET solar_data == read_csv(unprocessed, file)
            f == fetch_cams_data(solar_data, outs)
        IN  IF ~f.returned
            THEN MainRaises(f.exc, file, f, <<>>, NotValidated)
            ELSE IF Len(f.cams_df) = 0
            THEN \* line 247: raise of a str
                 MainRaises("TypeError", file, f, f.cams_df, NotValidated)
            ELSE
            LET r == validate_output(f.cams_df, config.start_date, config.end_date,
                                     config.time_step, results, today)
            IN  IF r.v.exc # "none"
                THEN MainRaises(r.v.exc, file, f, f.cams_df, r.v)
                ELSE
                LET a == archive(r.v.ret, file, unprocessed, processed)
                IN  /\ datafile' = file
                    /\ fetch' = f
                    /\ cams_details' = f.cams_df
                    /\ validation' = r.v
                    /\ results' = r.folder
                    /\ unprocessed' = a.from
                    /\ processed' = a.to
                    /\ handled' = a.exc
                    /\ escaped' = IF a.exc = "none" THEN "none" ELSE main_except(a.exc)

\* the rows main reads from the file it picks (none when there is no file)
picked_rows ==
    IF DOMAIN unprocessed = {} THEN <<>>
    ELSE read_csv(unprocessed, get_file_to_process(unprocessed_folder, unprocessed))

\* A run of process_cams_data.py.
run_main ==
    /\ \E outs \in [1..Len(picked_rows) -> CamsOutcomes] :
          \* no call follows one that raises: what it would do is left open
          /\ \A k \in DOMAIN outs : \A j \in DOMAIN outs :
                (k < j /\ outs[k].raises) => outs[j] = outs[k]
          /\ main(outs)
    /\ last_run' = "main"
    /\ chunked' = NotChunked
    /\ UNCHANGED <<config, input_file, clock, today>>

\* The calendar date advances between runs.
next_day ==
    /\ today < MaxDay
    /\ today' = today + 1
    /\ UNCHANGED <<config, input_file, unprocessed, processed, results, clock,
                   chunked, datafile, fetch, cams_details, validation, handled,
                   escaped, last_run>>

\* validate_output called on its own on the table cams_details.
run_validate ==
    /\ ~validation.called
    /\ LET r == validate_output(cams_details, config.start_date, config.end_date,
                                config.time_step, results, today)
       IN  /\ validation' = r.v
           /\ results' = r.folder
    /\ last_run' = "validate"
    /\ UNCHANGED <<config, input_file, unprocessed, processed, clock, today,
                   chunked, datafile, fetch, cams_details, handled, escaped>>

---------------------------------------------------------------------------
(* Inputs *)

Chars(a, b, c, d, e, f, g, h) == <<a, b, c, d, "-", e, f, "-", g, h>>

\* date strings of config.json: around a year end, a leap day, and one that is
\* no calendar date
DateStrings ==
    { Chars("2", "0", "2", "3", "0", "1", "0", "1"),
      Chars("2", "0", "2", "3", "0", "1", "1", "5"),
      Chars("2", "0", "2", "3", "0", "3", "1", "5"),
      Chars("2", "0", "2", "3", "1", "2", "3", "1"),
      Chars("2", "0", "2", "4", "0", "2", "2", "8"),
      Chars("2", "0", "2", "4", "0", "3", "0", "1"),
      Chars("2", "0", "2", "3", "0", "2", "3", "0") }

\* --time_step choices of set_up.py
TimeSteps == {"1min", "15min", "1h", "1d", "1M"}

Configs ==
    [start_date : DateStrings, end_date : DateStrings, time_step : TimeSteps]

\* the configurations the runs of main are explored under
MainConfigs ==
    { c \in Configs :
        /\ c.start_date = Chars("2", "0", "2", "3", "0", "1", "1", "5")
        /\ c.end_date = Chars("2", "0", "2", "3", "0", "1", "1", "5")
        /\ c.time_step \in {"1M", "1d"} }

\* location files: no row, one location, two locations of one latitude, two
\* locations of different latitudes
LocLists ==
    { <<>>,
      <<LocationRow(1, 1)>>,
      <<LocationRow(1, 1), LocationRow(1, 2)>>,
      <<LocationRow(1, 1), LocationRow(2, 1)>> }

\* inputs of set_up.py between the runs of main: no row, one location
SetUpInputs == { <<>>, <<LocationRow(1, 1)>> }

\* a folder holding the given files, created in order
FolderOf(files) == [k \in 1..Len(files) |-> [ctime |-> k - 1, rows |-> files[k]]]

\* combined tables handed to validate_output alone
TableRows == { LocationRow(lat, lon) \o << <<"ghi", 1>> >> : lat \in Lats, lon \in Lons }
Tables == SeqsUpTo(TableRows, MaxRows)

\* the input of chunk_data alone: n distinct rows
BigInput(n) == [k \in 1..n |-> LocationRow(k, k)]

---------------------------------------------------------------------------
(* The pipeline: set_up.py and process_cams_data.py run one after another, *)
(* in any order and any number of times.                                    *)

Idle ==
    /\ chunked = NotChunked
    /\ datafile = None
    /\ fetch = NotFetched
    /\ cams_details = <<>>
    /\ validation = NotValidated
    /\ handled = "none"
    /\ escaped = "none"
    /\ last_run = "none"

Init ==
    /\ config \in MainConfigs
    /\ input_file \in SetUpInputs
    /\ \E files \in SeqsUpTo(LocLists, MaxFiles) :
          /\ unprocessed = FolderOf(files)
          /\ clock = Len(files)
    /\ processed = EmptyFolder
    /\ results = EmptyFolder
    /\ today = 1
    /\ Idle

Next == set_up \/ run_main \/ next_day

Spec == Init /\ [][Next]_vars

(* chunk_data on its own, on inputs of 0..MaxRowCount rows *)

InitChunk ==
    /\ config \in MainConfigs
    /\ \E n \in 0..MaxRowCount : input_file = BigInput(n)
    /\ unprocessed = EmptyFolder
    /\ clock = 0
    /\ processed = EmptyFolder
    /\ results = EmptyFolder
    /\ today = 1
    /\ Idle

NextChunk == set_up

SpecChunk == InitChunk /\ [][NextChunk]_vars

(* validate_output on its own, on every configuration and small tables *)

InitValidate ==
    /\ config \in Configs
    /\ input_file = <<>>
    /\ unprocessed = EmptyFolder
    /\ clock = 0
    /\ processed = EmptyFolder
    /\ results \in {EmptyFolder, [d \in {1} |-> <<>>]}
    /\ today = 1
    /\ chunked = NotChunked
    /\ datafile = None
    /\ fetch = NotFetched
    /\ cams_details \in Tables
    /\ validation = NotValidated
    /\ handled = "none"
    /\ escaped = "none"
    /\ last_run = "none"

NextValidate == run_validate

SpecValidate == InitValidate /\ [][NextValidate]_vars

---------------------------------------------------------------------------
(* What the claims speak of, stated without the code's own computations *)

\* distinct (Latitude, Longitude) pairs of a table
DistinctLocations(table) ==
    Cardinality({ <<Col(table[k], "Latitude"), Col(table[k], "Longitude")>> :
                    k \in 1..Len(table) })

\* the calendar day after dt
NextDay(dt) ==
    IF dt.day < days_in_month(dt.year, dt.month) THEN [dt EXCEPT !.day = @ + 1]
    ELSE IF dt.month < 12 THEN [dt EXCEPT !.month = @ + 1, !.day = 1]
    ELSE [dt EXCEPT !.year = @ + 1, !.month = 1, !.day = 1]

Before(a, b) ==
    \/ a.year < b.year
    \/ a.year = b.year /\ a.month < b.month
    \/ a.year = b.year /\ a.month = b.month /\ a.day < b.day

\* days from the start of a to the start of b (a <= b), counted month by
\* month on the calendar
RECURSIVE DaysBetween(_, _)
DaysBetween(a, b) ==
    IF a.year = b.year /\ a.month = b.month THEN b.day - a.day
    ELSE (days_in_month(a.year, a.month) - a.day) + 1
            + DaysBetween(NextDay([a EXCEPT !.day = days_in_month(a.year, a.month)]), b)

MinutesBetween(a, b) == 24 * 60 * DaysBetween(a, b)

StepMinutes(time_step) ==
    CASE time_step = "1min" -> 1 [] time_step = "15min" -> 15 [] time_step = "1h" -> 60

CeilDiv(a, b) == (a + b - 1) \div b

RECURSIVE ConcatChunks(_, _)
ConcatChunks(folder, k) ==
    IF k = 0 THEN <<>> ELSE ConcatChunks(folder, k - 1) \o folder[k].rows

\* the combined table of the calls made: per call, in order, one row per
\* returned row, led by the call's coordinates
RECURSIVE TablesOfCalls(_, _)
TablesOfCalls(calls, k) ==
    IF k = 0 THEN <<>>
    ELSE TablesOfCalls(calls, k - 1) \o
         [j \in 1..calls[k].rows |->
            << <<"Latitude", calls[k].Latitude>>, <<"Longitude", calls[k].Longitude>>,
               <<"ghi", j>> >>]

RECURSIVE SumRows(_, _)
SumRows(calls, k) == IF k = 0 THEN 0 ELSE SumRows(calls, k - 1) + calls[k].rows

StartDate == strptime(config.start_date)
EndDate == strptime(config.end_date)
ValidRange == StartDate.ok /\ EndDate.ok /\ ~Before(EndDate, StartDate)

\* a run of main that found a file and ended in a fetch failure, an empty
\* fetch result or a validation failure
RunFailed ==
    /\ last_run = "main"
    /\ datafile # None
    /\ \/ ~fetch.returned
       \/ fetch.returned /\ Len(fetch.cams_df) = 0
       \/ validation.called /\ validation.exc # "none"

---------------------------------------------------------------------------
(* Claims *)

\* C1: for valid start_date <= end_date and time_step in {1min, 15min, 1h},
\* the expected row count validate_output compares against is
\* N * floor(minutes from start of start_date to start of end_date + 1 day
\* / step minutes), N the number of distinct (Latitude, Longitude) pairs.
C1_ExpectedRowsSubDaily ==
    (last_run = "validate" /\ ValidRange /\ config.time_step \in {"1min", "15min", "1h"})
        => validation.exp_rows =
            << DistinctLocations(cams_details) *
               (MinutesBetween(StartDate, NextDay(EndDate))
                    \div StepMinutes(config.time_step)) >>

\* C2: for time_step 1M the expected row count is N * (months spanned from
\* start_date's month to end_date's month inclusive), N the number of
\* distinct (Latitude, Longitude) pairs, whatever the days of the month.
C2_ExpectedRowsMonthly ==
    (last_run = "validate" /\ StartDate.ok /\ EndDate.ok /\ config.time_step = "1M")
        => validation.exp_rows =
            << DistinctLocations(cams_details) *
               ((EndDate.year - StartDate.year) * 12
                    + (EndDate.month - StartDate.month) + 1) >>

\* C3: for every input of row_count rows (0 included) chunk_data returns
\* k = ceil(row_count / 100), writes chunk files 1..k whose concatenation in
\* index order is the input, and every chunk but the last holds 100 rows.
C3_ChunkingIsPartition ==
    last_run = "set_up" =>
        LET k == CeilDiv(Len(input_file), 100)
        IN  /\ chunked.exc = "none"
            /\ chunked.ret = <<k>>
            /\ chunked.written = [j \in 1..k |-> j]
            /\ 1..k \subseteq DOMAIN unprocessed
            /\ ConcatChunks(unprocessed, k) = input_file
            /\ \A j \in 1..(k - 1) : Len(unprocessed[j].rows) = 100

\* C4: validate_output writes the table to the results folder and returns
\* success exactly when the actual row count equals the expected one; when
\* they differ it raises a mismatch error carrying both counts and leaves the
\* results folder unchanged.
C4_ValidateWritesIffMatch ==
    [][ (last_run' = "validate" /\ last_run = "none") =>
          LET v == validation'
              compared == v.exp_rows # <<>>
              equal == compared /\ Len(cams_details) = v.exp_rows[1]
          IN  /\ v.ret <=> equal
              /\ v.ret => /\ v.exc = "none"
                          /\ DOMAIN results' = (DOMAIN results) \cup {today}
                          /\ results'[today] = cams_details
                          /\ \A d \in (DOMAIN results) \ {today} :
                                results'[d] = results[d]
              /\ ~v.ret => results' = results /\ v.exc # "none"
              /\ (compared /\ ~equal) =>
                    /\ v.exc = "ValueError"
                    /\ v.msg = <<v.exp_rows[1], Len(cams_details)>> ]_vars

C4_Witness ==
    /\ last_run = "validate"
    /\ validation.ret
    /\ Len(cams_details) = 2
    /\ results[today] = cams_details

\* C5: after a run of main in which fetch and validation succeed the picked
\* file is no longer in the unprocessed folder and a file of the same base
\* name is in the processed folder; and no run of main puts a file in both
\* folders.
C5_ArchivedAfterSuccess ==
    /\ [](  (last_run = "main" /\ fetch.returned /\ validation.ret)
            => /\ base_name(datafile) \notin DOMAIN unprocessed
               /\ base_name(datafile) \in DOMAIN processed )
    /\ [][ (last_run' = "main" /\ today' = today
                /\ (DOMAIN unprocessed) \cap (DOMAIN processed) = {})
            => (DOMAIN unprocessed') \cap (DOMAIN processed') = {} ]_vars

\* C6: when the unprocessed folder holds no file, main's run is a no-op that
\* completes: no exception leaves main and no fetch, validation, save or
\* archive is performed.
C6_NoFileIsNoOp ==
    [][ (last_run' = "main" /\ today' = today /\ DOMAIN unprocessed = {}) =>
          /\ datafile' = None
          /\ escaped' = "none"
          /\ ~fetch'.called
          /\ ~validation'.called
          /\ results' = results
          /\ unprocessed' = unprocessed
          /\ processed' = processed ]_vars

\* C7: if get_cams fails for the location at index i, fetch_cams_data makes
\* no later call, does not retry i, returns no table, logs i and that
\* location's coordinates, and re-raises the primitive's exception.
C7_FetchFailureAborts ==
    (fetch.called /\ \E k \in DOMAIN fetch.calls : fetch.calls[k].raises) =>
        LET n == Len(fetch.calls)
            failing == fetch.calls[n]
        IN  /\ failing.raises
            /\ \A k \in 1..n : fetch.calls[k].idx = k - 1
            /\ \A k \in 1..(n - 1) : ~fetch.calls[k].raises
            /\ ~fetch.returned
            /\ fetch.log = << [idx |-> failing.idx, Latitude |-> failing.Latitude,
                               Longitude |-> failing.Longitude] >>
            /\ fetch.exc = fetch.primitive_exc

\* C8: a run of main that ends in a fetch failure, an empty fetch result or a
\* validation failure leaves the picked file in the unprocessed folder and the
\* processed folder unchanged, so that the same file is the one a later run
\* picks.
C8_FailureLeavesFilePending ==
    [][ (RunFailed' /\ today' = today) =>
          /\ unprocessed' = unprocessed
          /\ processed' = processed
          /\ base_name(datafile') \in DOMAIN unprocessed'
          /\ get_file_to_process(unprocessed_folder, unprocessed') = datafile' ]_vars

C8_Witness ==
    /\ RunFailed
    /\ validation.called
    /\ validation.msg # <<>>
    /\ Cardinality(DOMAIN unprocessed) = 2
    /\ base_name(datafile) \in DOMAIN unprocessed

\* C9: when get_cams succeeds for every location, fetch_cams_data calls it
\* once per input row in input order and returns the concatenation, in that
\* order, of the per-location tables, each row led by its location's Latitude
\* and Longitude; its row count is the sum of the per-location counts and an
\* input of zero rows yields an empty table.
C9_FetchConcatenates ==
    (fetch.called /\ \A k \in DOMAIN fetch.calls : ~fetch.calls[k].raises) =>
        LET n == Len(fetch.solar_data)
        IN  /\ fetch.returned
            /\ Len(fetch.calls) = n
            /\ \A k \in 1..n :
                  /\ fetch.calls[k].idx = k - 1
                  /\ fetch.calls[k].Latitude = Col(fetch.solar_data[k], "Latitude")
                  /\ fetch.calls[k].Longitude = Col(fetch.solar_data[k], "Longitude")
            /\ fetch.cams_df = TablesOfCalls(fetch.calls, n)
            /\ Len(fetch.cams_df) = SumRows(fetch.calls, n)
            /\ n = 0 => fetch.cams_df = <<>>

C9_Witness ==
    /\ fetch.returned
    /\ Len(fetch.solar_data) = 2
    /\ fetch.solar_data[1] # fetch.solar_data[2]
    /\ Len(fetch.cams_df) = 2

\* C10: the results file is named by the current date alone: a successful run
\* of main leaves, for today's date, one file holding exactly that run's
\* combined table, replacing what an earlier run of the same date saved, and
\* leaves the files of other dates as they were.
C10_ResultsOverwrittenPerDate ==
    [][ (last_run' = "main" /\ today' = today /\ validation'.ret) =>
          /\ DOMAIN results' = (DOMAIN results) \cup {today}
          /\ results'[today] = cams_details'
          /\ \A d \in (DOMAIN results) \ {today} : results'[d] = results[d] ]_vars

\* two runs of one date archived their chunk files; only the last table is kept
C10_Witness ==
    /\ last_run = "main"
    /\ validation.ret
    /\ today = 1
    /\ DOMAIN results = {1}
    /\ results[1] = cams_details
    /\ base_name(datafile) \in DOMAIN processed
    /\ \E f \in DOMAIN processed :
          /\ f # base_name(datafile)
          /\ processed[f].rows # processed[base_name(datafile)].rows

====
